---- MODULE Spec2Model ----
(***************************************************************************)
(* Model of the firestore-backup cloud function (src/function.go).         *)
(*                                                                         *)
(* One HTTP handler, `function`, reads a JSON body into a backupRequest,   *)
(* validates it, creates a Firestore admin client and dispatches on the    *)
(* action to ExportDocuments / ImportDocuments, waiting for the returned   *)
(* long-running operation.  Each invocation of the handler is a process    *)
(* with its own locals; the platform may run several at once.              *)
(***************************************************************************)
EXTENDS Integers, Sequences, FiniteSets, TLC

\* ------------------------------------------------------------------ bounds
\* Number of handler invocations the platform runs side by side.
NumInv == 2
\* Longest "collections" array a request body carries.
MaxColl == 2

Invs == 1..NumInv

\* ------------------------------------------------------- program constants
StatusOK == 200
StatusBadRequest == 400
StatusInternalServerError == 500

\* ------------------------------------------------------------- JSON bodies
\* A JSON member of the body is absent, or present with a JSON type.  String
\* members carry their text in s, the "collections" member its array in a.
Absent == [t |-> "absent", s |-> ""]
JStr(x) == [t |-> "string", s |-> x]
JNum == [t |-> "number", s |-> "0"]

NoArr == [t |-> "absent", a |-> <<>>]
JArr(x) == [t |-> "array", a |-> x]
JNotArr == [t |-> "string", a |-> <<>>]

CollIds == {"c1", "c2"}
CollLists == UNION {[1..n -> CollIds] : n \in 0..MaxColl}

\* The members a body may carry: the four the struct tags name, and the
\* "bucket_name" member the README's example bodies use.
NoObj ==
  [action |-> Absent, collections |-> NoArr, project_id |-> Absent,
   bucket |-> Absent, bucket_name |-> Absent]

ActionMembers == {Absent, JNum} \cup {JStr(x) : x \in {"", "backup", "restore", "back", "delete"}}
ProjectMembers == {Absent, JStr(""), JStr("p1")}
BucketMembers == {Absent, JStr(""), JStr("b1")}
BucketNameMembers == {Absent, JStr("b1")}
CollectionMembers == {NoArr, JNotArr} \cup {JArr(x) : x \in CollLists}

Objects ==
  [action : ActionMembers, collections : CollectionMembers,
   project_id : ProjectMembers, bucket : BucketMembers,
   bucket_name : BucketNameMembers]

\* kind "unreadable": reading r.Body fails; "malformed": the bytes are not
\* JSON; "object": a JSON object with the members of obj.
Bodies ==
  {[kind |-> "unreadable", obj |-> NoObj], [kind |-> "malformed", obj |-> NoObj]}
    \cup {[kind |-> "object", obj |-> o] : o \in Objects}

\* What the world outside the handler does for one invocation: whether the
\* admin client can be created, and whether the service accepts the
\* operation and completes it.
Envs == [client : {"ok", "err"}, svc : {"ok", "submitErr", "waitErr"}]

\* Error texts of the libraries the handler calls.
ReadErrText == "unexpected EOF"
SyntaxErrText == "invalid character 'x' looking for beginning of value"
TypeErrText == "json: cannot unmarshal value into Go struct field of backupRequest"
ClientErrText == "could not find default credentials"
SubmitErrText == "rpc error: code = PermissionDenied"
WaitErrText == "rpc error: code = DeadlineExceeded"

\* Per invocation: pc, the handler's position; body, the request body sent;
\* env, what client creation and the service do; req, the decoded
\* backupRequest; w, the response written; calls, the export and import
\* calls sent; op, the state of the long-running operation.
VARIABLES pc, body, env, req, w, calls, op

vars == <<pc, body, env, req, w, calls, op>>

\* ------------------------------------------------------------ backupRequest
ZeroRequest == [Action |-> "", Collections |-> <<>>, ProjectId |-> "", Bucket |-> ""]

\* A fresh http.ResponseWriter: code 0 means WriteHeader was not called.
ZeroResponse == [code |-> 0, text |-> ""]

\* ------------------------------------------------------- json.Unmarshal
\* A member of the wrong JSON type for its struct field.
TypeMismatch(o) ==
  \/ o.action.t = "number"
  \/ o.project_id.t = "number"
  \/ o.bucket.t = "number"
  \/ o.collections.t = "string"

\* The string a string field ends with: the member's text when the member
\* is a JSON string, the zero value otherwise.
StringField(m) == IF m.t = "string" THEN m.s ELSE ""

\* The struct tags: action, collections, project_id, bucket.  Members with
\* other names ("bucket_name") match no field and are dropped.
Decode(o) ==
  [Action |-> StringField(o.action),
   Collections |-> IF o.collections.t = "array" THEN o.collections.a ELSE <<>>,
   ProjectId |-> StringField(o.project_id),
   Bucket |-> StringField(o.bucket)]

\* A decoder that accepts members of the wrong type and leaves their field
\* at its zero value.
unmarshalLenient(b) ==
  IF b.kind = "malformed"
    THEN [err |-> SyntaxErrText, req |-> ZeroRequest]
    ELSE [err |-> "", req |-> Decode(b.obj)]

\* json.Unmarshal(body, &req): err is "" for a nil error.
unmarshal(b) ==
  IF b.kind = "malformed"
    THEN [err |-> SyntaxErrText, req |-> ZeroRequest]
    ELSE [err |-> IF TypeMismatch(b.obj) THEN TypeErrText ELSE "",
          req |-> Decode(b.obj)]

\* ------------------------------------------------- backupRequest.validate
\* A validate that checks the bucket before the project.
validateBucketFirst(r) ==
  IF r.Bucket = "" THEN "bucket is required"
  ELSE IF r.ProjectId = "" THEN "project is required"
  ELSE IF r.Action = "" THEN "action is required"
  ELSE IF r.Action # "backup" /\ r.Action # "restore"
    THEN "action must be either backup or restore"
  ELSE ""

\* The error text validate returns, "" for nil.
validate(r) ==
  IF r.ProjectId = "" THEN "project is required"
  ELSE IF r.Bucket = "" THEN "bucket is required"
  ELSE IF r.Action = "" THEN "action is required"
  ELSE IF r.Action # "backup" /\ r.Action # "restore"
    THEN "action must be either backup or restore"
  ELSE IF r.Action = "backup" /\ r.Bucket = ""
    THEN "bucket is required when action is backup"
  ELSE ""

\* ------------------------------------------------ the admin service calls
DatabaseName(r) == "projects/" \o r.ProjectId \o "/databases/(default)"
UriPrefix(r) == "gs://" \o r.Bucket \o "/firestore-backup"

ExportDocumentsRequest(r) ==
  [rpc |-> "ExportDocuments", Name |-> DatabaseName(r),
   CollectionIds |-> r.Collections, UriPrefix |-> UriPrefix(r)]

\* An import request that names the bucket root instead of the backup folder.
ImportDocumentsRequestNoFolder(r) ==
  [rpc |-> "ImportDocuments", Name |-> DatabaseName(r),
   CollectionIds |-> r.Collections, UriPrefix |-> "gs://" \o r.Bucket]

ImportDocumentsRequest(r) ==
  [rpc |-> "ImportDocuments", Name |-> DatabaseName(r),
   CollectionIds |-> r.Collections, UriPrefix |-> UriPrefix(r)]

\* fmt.Errorf of backup (both failure points) and of restore's Wait.
BackingUpError(text) == "error backing up firestore database: " \o text
\* fmt.Errorf of restore's ImportDocuments failure.
RestoringError(text) == "error restoring firestore database: " \o text

\* The branch the handler's switch takes for an action.
SwitchBranch(a) ==
  CASE a = "back" -> "backup"
    [] a = "restore" -> "restore"
    [] OTHER -> "none"

\* ------------------------------------------------------------------ Init
NoRequest == [kind |-> "malformed", obj |-> NoObj]
NoEnv == [client |-> "ok", svc |-> "ok"]

\* One request reaches the function; the other instances stay idle.
Init ==
  /\ \E b \in Bodies, e \in Envs :
       /\ body = [i \in Invs |-> IF i = 1 THEN b ELSE NoRequest]
       /\ env = [i \in Invs |-> IF i = 1 THEN e ELSE NoEnv]
  /\ pc = [i \in Invs |-> IF i = 1 THEN "ReadAll" ELSE "idle"]
  /\ req = [i \in Invs |-> ZeroRequest]
  /\ w = [i \in Invs |-> ZeroResponse]
  /\ calls = [i \in Invs |-> <<>>]
  /\ op = [i \in Invs |-> "none"]

\* --------------------------------------------------------------- function
\* w.WriteHeader(code); w.Write(text); return
Fail(i, code, text) ==
  /\ w' = [w EXCEPT ![i] = [code |-> code, text |-> text]]
  /\ pc' = [pc EXCEPT ![i] = "done"]

\* body, err := io.ReadAll(r.Body)
ReadAll(i) ==
  /\ pc[i] = "ReadAll"
  /\ IF body[i].kind = "unreadable"
       THEN Fail(i, StatusInternalServerError, ReadErrText)
       ELSE /\ pc' = [pc EXCEPT ![i] = "Unmarshal"]
            /\ UNCHANGED w
  /\ UNCHANGED <<body, env, req, calls, op>>

\* A handler whose req is a package-level variable: decoding one request
\* overwrites the record every running invocation reads.
UnmarshalShared(i) ==
  /\ pc[i] = "Unmarshal"
  /\ LET u == unmarshal(body[i]) IN
       /\ req' = [j \in Invs |-> u.req]
       /\ IF u.err # ""
            THEN Fail(i, StatusInternalServerError, u.err)
            ELSE /\ pc' = [pc EXCEPT ![i] = "validate"]
                 /\ UNCHANGED w
  /\ UNCHANGED <<body, env, calls, op>>

\* json.Unmarshal(body, &req)
Unmarshal(i) ==
  /\ pc[i] = "Unmarshal"
  /\ LET u == unmarshal(body[i]) IN
       /\ req' = [req EXCEPT ![i] = u.req]
       /\ IF u.err # ""
            THEN Fail(i, StatusInternalServerError, u.err)
            ELSE /\ pc' = [pc EXCEPT ![i] = "validate"]
                 /\ UNCHANGED w
  /\ UNCHANGED <<body, env, calls, op>>

\* A handler that writes the 400 response and goes on without returning.
ValidateNoReturn(i) ==
  /\ pc[i] = "validate"
  /\ LET e == validate(req[i]) IN
       /\ w' = IF e # ""
                 THEN [w EXCEPT ![i] = [code |-> StatusBadRequest, text |-> e]]
                 ELSE w
       /\ pc' = [pc EXCEPT ![i] = "NewClient"]
  /\ UNCHANGED <<body, env, req, calls, op>>

\* req.validate()
Validate(i) ==
  /\ pc[i] = "validate"
  /\ LET e == validate(req[i]) IN
       IF e # ""
         THEN Fail(i, StatusBadRequest, e)
         ELSE /\ pc' = [pc EXCEPT ![i] = "NewClient"]
              /\ UNCHANGED w
  /\ UNCHANGED <<body, env, req, calls, op>>

\* apiv1.NewFirestoreAdminClient(r.Context())
NewClient(i) ==
  /\ pc[i] = "NewClient"
  /\ IF env[i].client = "err"
       THEN Fail(i, StatusInternalServerError, ClientErrText)
       ELSE /\ pc' = [pc EXCEPT ![i] = "switch"]
            /\ UNCHANGED w
  /\ UNCHANGED <<body, env, req, calls, op>>

\* client.ExportDocuments / client.ImportDocuments: the request is sent; a
\* refused request ends the handler with the wrapped error, an accepted one
\* leaves a long-running operation to wait for.
Submit(i, call, wrapped) ==
  /\ calls' = [calls EXCEPT ![i] = Append(@, call)]
  /\ IF env[i].svc = "submitErr"
       THEN /\ Fail(i, StatusInternalServerError, wrapped)
            /\ UNCHANGED op
       ELSE /\ op' = [op EXCEPT ![i] = "running"]
            /\ pc' = [pc EXCEPT ![i] = "Wait"]
            /\ UNCHANGED w

\* switch req.Action
Dispatch(i) ==
  /\ pc[i] = "switch"
  /\ CASE SwitchBranch(req[i].Action) = "backup" ->
            Submit(i, ExportDocumentsRequest(req[i]), BackingUpError(SubmitErrText))
       [] SwitchBranch(req[i].Action) = "restore" ->
            Submit(i, ImportDocumentsRequest(req[i]), RestoringError(SubmitErrText))
       [] OTHER ->
            /\ pc' = [pc EXCEPT ![i] = "done"]
            /\ UNCHANGED <<w, calls, op>>
  /\ UNCHANGED <<body, env, req>>

\* op.Wait(ctx) of backup and of restore; both wrap a failure in the
\* "backing up" message.
Wait(i) ==
  /\ pc[i] = "Wait"
  /\ IF env[i].svc = "waitErr"
       THEN /\ op' = [op EXCEPT ![i] = "failed"]
            /\ Fail(i, StatusInternalServerError, BackingUpError(WaitErrText))
       ELSE /\ op' = [op EXCEPT ![i] = "done"]
            /\ pc' = [pc EXCEPT ![i] = "done"]
            /\ UNCHANGED w
  /\ UNCHANGED <<body, env, req, calls>>

Next ==
  \E i \in Invs :
    \/ ReadAll(i)
    \/ Unmarshal(i)
    \/ Validate(i)
    \/ NewClient(i)
    \/ Dispatch(i)
    \/ Wait(i)

Spec == Init /\ [][Next]_vars

\* The status the client receives once the handler has returned: net/http
\* sends 200 when WriteHeader was never called.
Status(i) == IF w[i].code = 0 THEN StatusOK ELSE w[i].code

\* ------------------------------------------------- concurrent invocations
\* The requests of the concurrent runs: a backup and a restore of different
\* projects and buckets, the README's restore body, and a body that is not
\* JSON; the service completes the operation or fails while it is awaited.
Member(a, c, p, b, n) ==
  [action |-> a, collections |-> c, project_id |-> p, bucket |-> b, bucket_name |-> n]

ConcBodies ==
  {[kind |-> "malformed", obj |-> NoObj],
   [kind |-> "object",
    obj |-> Member(JStr("backup"), JArr(<<"c1">>), JStr("p1"), JStr("b1"), Absent)],
   [kind |-> "object",
    obj |-> Member(JStr("restore"), JArr(<<"c2">>), JStr("p2"), JStr("b2"), Absent)],
   [kind |-> "object",
    obj |-> Member(JStr("restore"), NoArr, JStr("p1"), Absent, JStr("b1"))]}

ConcEnvs == [client : {"ok"}, svc : {"ok", "waitErr"}]

\* Every instance has a request and all run interleaved.
InitConc ==
  /\ body \in [Invs -> ConcBodies]
  /\ env \in [Invs -> ConcEnvs]
  /\ pc = [i \in Invs |-> "ReadAll"]
  /\ req = [i \in Invs |-> ZeroRequest]
  /\ w = [i \in Invs |-> ZeroResponse]
  /\ calls = [i \in Invs |-> <<>>]
  /\ op = [i \in Invs |-> "none"]

ConcSpec == InitConc /\ [][Next]_vars

\* ------------------------------------------------------------ the requests
\* The body is a JSON object whose members fit the record's field types.
Parses(b) == b.kind = "object" /\ ~TypeMismatch(b.obj)

\* The text a body gives for a member, "" when the member is missing.
Given(m) == IF m.t = "string" THEN m.s ELSE ""
GivenList(b) == IF b.obj.collections.t = "array" THEN b.obj.collections.a ELSE <<>>

\* A body that parses with a project, a bucket and the action a.
ValidFor(b, a) ==
  /\ Parses(b)
  /\ Given(b.obj.project_id) # ""
  /\ Given(b.obj.bucket) # ""
  /\ Given(b.obj.action) = a

ExpectedName(b) == "projects/" \o Given(b.obj.project_id) \o "/databases/(default)"
ExpectedUri(b) == "gs://" \o Given(b.obj.bucket) \o "/firestore-backup"

\* The message is the underlying error text, possibly wrapped by a prefix.
Carries(msg, text) ==
  \E prefix \in {"", "error backing up firestore database: ",
                 "error restoring firestore database: "} : msg = prefix \o text

\* ------------------------------------------------------------------ claims

\* C1: a request that parses with a non-empty project P, a non-empty bucket
\* B and action "backup", whose admin client is created, makes the handler
\* call ExportDocuments exactly once, with name
\* projects/P/databases/(default), the request's collections and the URI
\* gs://B/firestore-backup, and ImportDocuments not at all.
C1_BackupExportsOnce ==
  \A i \in Invs :
    (pc[i] = "done" /\ ValidFor(body[i], "backup") /\ env[i].client = "ok")
      => calls[i] = << [rpc |-> "ExportDocuments", Name |-> ExpectedName(body[i]),
                        CollectionIds |-> GivenList(body[i]),
                        UriPrefix |-> ExpectedUri(body[i])] >>

\* C2: a request that parses with a non-empty project P, a non-empty bucket
\* B and action "restore", whose admin client is created, makes the handler
\* call ImportDocuments exactly once, with name
\* projects/P/databases/(default), the request's collections and the URI
\* gs://B/firestore-backup, and ExportDocuments not at all.
C2_RestoreImportsOnce ==
  \A i \in Invs :
    (pc[i] = "done" /\ ValidFor(body[i], "restore") /\ env[i].client = "ok")
      => calls[i] = << [rpc |-> "ImportDocuments", Name |-> ExpectedName(body[i]),
                        CollectionIds |-> GivenList(body[i]),
                        UriPrefix |-> ExpectedUri(body[i])] >>

\* A restore of two collections has returned after its one import call.
C2_Witness ==
  \E i \in Invs :
    /\ pc[i] = "done" /\ ValidFor(body[i], "restore") /\ env[i].client = "ok"
    /\ Len(calls[i]) = 1 /\ calls[i][1].rpc = "ImportDocuments"
    /\ Len(calls[i][1].CollectionIds) = 2

\* C3: for a valid backup or restore request whose admin client is created,
\* when the service refuses the operation or the operation fails while it
\* is awaited, the handler answers 500 and the response carries the
\* underlying error text.
C3_ServiceFailureIs500 ==
  \A i \in Invs :
    (/\ pc[i] = "done"
     /\ ValidFor(body[i], "backup") \/ ValidFor(body[i], "restore")
     /\ env[i].client = "ok"
     /\ env[i].svc # "ok")
      => /\ Status(i) = StatusInternalServerError
         /\ Carries(w[i].text,
                    IF env[i].svc = "submitErr" THEN SubmitErrText ELSE WaitErrText)

C5_UnparsedIs500 ==
  \A i \in Invs :
    (pc[i] # "idle" /\ ~Parses(body[i])) =>
      /\ pc[i] \in {"ReadAll", "Unmarshal", "done"}
      /\ Status(i) # StatusBadRequest
      /\ pc[i] = "done" =>
           /\ Status(i) = StatusInternalServerError
           /\ w[i].text = CASE body[i].kind = "unreadable" -> ReadErrText
                            [] body[i].kind = "malformed" -> SyntaxErrText
                            [] OTHER -> TypeErrText
           /\ calls[i] = <<>>

\* A body whose action is a number was answered 500.
C5_Witness ==
  \E i \in Invs :
    /\ pc[i] = "done" /\ body[i].kind = "object" /\ body[i].obj.action.t = "number"
    /\ Given(body[i].obj.project_id) = ""
    /\ Status(i) = StatusInternalServerError

\* The body of the README's examples: project_id, bucket_name and action.
ReadmeBody(b) ==
  /\ b.kind = "object"
  /\ b.obj.project_id.t = "string" /\ b.obj.project_id.s # ""
  /\ b.obj.bucket_name.t = "string" /\ b.obj.bucket_name.s # ""
  /\ b.obj.action.t = "string" /\ b.obj.action.s \in {"backup", "restore"}
  /\ b.obj.bucket.t = "absent"
  /\ b.obj.collections.t = "absent"

\* C6: the body the README documents (project_id, bucket_name, action
\* "backup" or "restore") passes validation and starts the export or the
\* import it asks for.
C6_ReadmeBodyAccepted ==
  \A i \in Invs :
    (pc[i] = "done" /\ ReadmeBody(body[i]) /\ env[i] = [client |-> "ok", svc |-> "ok"])
      => /\ Status(i) # StatusBadRequest
         /\ Len(calls[i]) = 1
         /\ calls[i][1].rpc = IF body[i].obj.action.s = "backup"
                                THEN "ExportDocuments" ELSE "ImportDocuments"

\* C7: all or nothing.  The handler sends at most one export or import
\* call; when it has returned after a call the service accepted, the
\* operation was awaited to its completion or failure; a 400 response, and
\* a return caused by a read, decode or client-creation failure, come with
\* no call at all.
C7_AllOrNothing ==
  \A i \in Invs :
    /\ Len(calls[i]) <= 1
    /\ calls[i] = <<>> => op[i] = "none"
    /\ (pc[i] = "done" /\ calls[i] # <<>>) =>
         \/ op[i] \in {"done", "failed"}
         \/ env[i].svc = "submitErr" /\ op[i] = "none"
    /\ Status(i) = StatusBadRequest => calls[i] = <<>>
    /\ (pc[i] = "done" /\ (~Parses(body[i]) \/ env[i].client = "err")) =>
         calls[i] = <<>>

\* A request answered 400 although its admin client could have been created
\* and the service would have run the operation.
C7_Witness ==
  \E i \in Invs :
    /\ pc[i] = "done" /\ Status(i) = StatusBadRequest
    /\ Given(body[i].obj.action) = "restore"
    /\ env[i] = [client |-> "ok", svc |-> "ok"]
    /\ calls[i] = <<>>

\* C8: every action that passes validate is taken by a branch of the
\* handler's switch: the handler never stands at the switch with an action
\* that no branch matches.
C8_ValidatedActionDispatched ==
  \A i \in Invs : pc[i] = "switch" => SwitchBranch(req[i].Action) # "none"

\* C9: 200 means success.  A handler that has returned with the default 200
\* status and an empty body has submitted the operation the request asked
\* for (export for backup, import for restore) and its wait completed.
C9_OkMeansCompleted ==
  \A i \in Invs :
    (pc[i] = "done" /\ Status(i) = StatusOK /\ w[i].text = "") =>
      /\ op[i] = "done"
      /\ Len(calls[i]) = 1
      /\ calls[i][1].rpc = IF Given(body[i].obj.action) = "backup"
                             THEN "ExportDocuments" ELSE "ImportDocuments"

\* C10: concurrent invocations are independent.  Two invocations with the
\* same body and the same outcome of their own external calls end with the
\* same response and the same calls, however the others interleave; and a
\* step leaves the request record, response, calls and operation of every
\* invocation that did not move as they were.
C10_SameInputSameResult ==
  \A i, j \in Invs :
    (pc[i] = "done" /\ pc[j] = "done" /\ body[i] = body[j] /\ env[i] = env[j])
      => w[i] = w[j] /\ calls[i] = calls[j] /\ op[i] = op[j]

C10_Frame ==
  \A i \in Invs :
    pc'[i] = pc[i] =>
      /\ req'[i] = req[i] /\ w'[i] = w[i]
      /\ calls'[i] = calls[i] /\ op'[i] = op[i]
      /\ body'[i] = body[i] /\ env'[i] = env[i]

C10_Independent == [](C10_SameInputSameResult) /\ [][C10_Frame]_vars

\* Two invocations with different requests have both returned, one with 200
\* after its import completed and one with 500.
C10_Witness ==
  \E i, j \in Invs :
    /\ i # j /\ pc[i] = "done" /\ pc[j] = "done"
    /\ Status(i) = StatusOK /\ Len(calls[i]) = 1 /\ op[i] = "done"
    /\ Status(j) = StatusInternalServerError
    /\ req[i] # req[j]

====
